---- MODULE Spec2Model ----
(***************************************************************************)
(* vintageVision backend: the cookie session issued by the Google OAuth    *)
(* callback, the Photos Picker routes (token refresh, mirroring of picked  *)
(* items into userPhotos, image proxy), the Vision + Gemini analysis       *)
(* routes with their storage fallbacks, and the dashboard routes.          *)
(*                                                                         *)
(* Browsers talk to the server, each with its own cookie jar.  Every route *)
(* handler is one action, atomic as when requests are served one after the *)
(* other; the answers of the services it calls (Google OAuth, Photos       *)
(* Picker, Photos Library, Vision, Gemini, Firestore) are inputs of the    *)
(* action.                                                                 *)
(* Rate limiting and the static routes of server.js are left out.          *)
(* `last` records the request just served: who asked, what was answered,   *)
(* and the downstream calls made while serving it, in order.               *)
(***************************************************************************)
EXTENDS Integers, Sequences, FiniteSets, TLC

VARIABLES cookies, users, accounts, userPhotos, results, last, poll

vars == <<cookies, users, accounts, userPhotos, results, last, poll>>

\* What the route handlers of the server read and write.
serverVars == <<cookies, users, accounts, userPhotos, results, last>>

----------------------------------------------------------------------------
(* Bounds *)

MaxDocs == 2        \* userPhotos document ids available
MaxResults == 1     \* results document ids available
MaxSel == 2         \* media items in one picker selection
MaxAccounts == 2    \* users documents that register can add

----------------------------------------------------------------------------
(* Values *)

None == "none"                      \* an absent cookie / undefined value
Users == {"u1", "u2"}               \* Google user ids
Browsers == {"b1", "b2", "b3"}      \* browsers, each with its own cookie jar
Tokens == {"tA", "tB"}              \* access tokens Google may hand out
RefreshTokens == {"rA"}

NoId == 0                           \* a missing id (null / undefined)
DocIds == 1..MaxDocs                \* Firestore auto ids of userPhotos
GooglePhotoIds == {101}             \* media item ids of Google Photos
ResultIds == 201..(200 + MaxResults) \* ids of results documents
TempResultId == 0 - 1               \* `temp_${Date.now()}`
NoDoc == [userId |-> None]          \* a document that does not exist

\* String length of an id: Firestore auto ids have 20 characters, Google
\* Photos media ids and generated result ids are longer than 30.
IdLength(id) == IF id \in DocIds THEN 20 ELSE 44

\* HTTP status of a downstream answer; 0 is an error without a response
\* (err.response undefined: network failure, timeout).
NoStatus == 0
UpstreamStatuses == {200, 400, 401, 403, 404, NoStatus}

\* The body of a failed answer: error.status and error.message of Google's
\* error object (photos.js:386-390).
NoErr == [apiStatus |-> None, message |-> None]
ErrBodies ==
    { [apiStatus |-> "FAILED_PRECONDITION", message |-> "other"],
      [apiStatus |-> "INVALID_ARGUMENT", message |-> "not picked media items"],
      [apiStatus |-> "INVALID_ARGUMENT", message |-> "Please redirect the user"],
      [apiStatus |-> "INVALID_ARGUMENT", message |-> "other"] }

\* One downstream call: which API, with which token, and what it answered.
\* For the authorization-code exchange, token is the refresh token the answer
\* carries.
Call(api, token, status) == [api |-> api, token |-> token, status |-> status]

NoCookies == [uid |-> None, access |-> None, refresh |-> None]

\* The request just served.  by: the browser that sent it; user: the google_user_id cookie it carried;
\* arg: the id it named; status, body: the answer; calls: the downstream
\* calls in order; set: the cookies the answer sets.
Served(b, op, user, arg, status, body, calls, set) ==
    [by |-> b, op |-> op, user |-> user, arg |-> arg, status |-> status,
     body |-> body, calls |-> calls, set |-> set, data |-> None]

ServedData(b, op, user, arg, status, body, calls, set, data) ==
    [by |-> b, op |-> op, user |-> user, arg |-> arg, status |-> status,
     body |-> body, calls |-> calls, set |-> set, data |-> data]

\* How a Firestore call ended, as a status: done, rejected, or still pending
\* when the caller stopped waiting.
FsStatus(fs) == IF fs = "ok" THEN 200 ELSE IF fs = "error" THEN 500 ELSE NoStatus

\* A Firestore call that either resolves or throws.
FsCall(api, ok) == Call(api, None, IF ok THEN 200 ELSE 500)

\* res.status(status || 500)
OrServerError(status) == IF status = NoStatus THEN 500 ELSE status

----------------------------------------------------------------------------
(* googleAuth.js *)

\* GET /api/auth/google/callback.
\*   errorParam, hasCode : the query parameters
\*   tokenRes            : the token endpoint's answer: None when the exchange
\*                         fails, else [access, refresh] (refresh may be None)
\*   userRes             : the userinfo answer: None when it fails, else the id
\*   fs                  : "ok" | "error" | "timeout" of users/{id}.set
\*   landed              : whether a timed-out write still reaches Firestore
CallbackCookies(ck, tokenRes, userRes) ==
    [uid     |-> userRes,
     access  |-> tokenRes.access,
     refresh |-> IF tokenRes.refresh # None THEN tokenRes.refresh ELSE ck.refresh]

CallbackSet(tokenRes) ==
    {"google_user_id", "google_access_token"} \cup
    (IF tokenRes.refresh # None THEN {"google_refresh_token"} ELSE {})

\* (a callback that gives up when the profile write fails)
CallbackSurvives_Strict(fs) == fs = "ok"

\* The catch around the profile write swallows its error and its timeout.
CallbackSurvives(fs) == TRUE

TokenAnswers ==
    {[access |-> None, refresh |-> None]} \cup
    [access : Tokens, refresh : RefreshTokens \cup {None}]

GoogleCallback(b) ==
    \E errorParam \in BOOLEAN :
    \E hasCode \in IF errorParam THEN {TRUE} ELSE BOOLEAN :
    \E tokenRes \in IF errorParam \/ ~hasCode THEN {[access |-> None, refresh |-> None]}
                    ELSE TokenAnswers :
    \E userRes \in IF tokenRes.access = None THEN {None} ELSE Users \cup {None} :
    \E fs \in IF userRes = None THEN {"ok"} ELSE {"ok", "error", "timeout"} :
    \E landed \in IF fs = "timeout" THEN BOOLEAN ELSE {FALSE} :
        /\ UNCHANGED <<userPhotos, results>>
        /\ IF errorParam \/ ~hasCode
           THEN /\ last' = Served(b, "callback", cookies[b].uid, NoId, 200, "GOOGLE_AUTH_ERROR", <<>>, {})
                /\ UNCHANGED <<cookies, users>>
           ELSE IF tokenRes.access = None
           THEN /\ last' = Served(b, "callback", cookies[b].uid, NoId, 200, "GOOGLE_AUTH_ERROR",
                                  <<Call("oauth.code", None, 400)>>, {})
                /\ UNCHANGED <<cookies, users>>
           ELSE IF userRes = None
           THEN /\ last' = Served(b, "callback", cookies[b].uid, NoId, 200, "GOOGLE_AUTH_ERROR",
                                  <<Call("oauth.code", tokenRes.refresh, 200),
                                    Call("userinfo", tokenRes.access, 401)>>, {})
                /\ UNCHANGED <<cookies, users>>
           ELSE IF ~CallbackSurvives(fs)
           THEN /\ last' = Served(b, "callback", cookies[b].uid, NoId, 200, "GOOGLE_AUTH_ERROR",
                                  <<Call("oauth.code", tokenRes.refresh, 200),
                                    Call("userinfo", tokenRes.access, 200),
                                    Call("users.set", None, FsStatus(fs))>>, {})
                /\ users' = IF fs = "timeout" /\ landed THEN users \cup {userRes} ELSE users
                /\ UNCHANGED cookies
           ELSE /\ users' = IF fs = "ok" \/ (fs = "timeout" /\ landed)
                            THEN users \cup {userRes} ELSE users
                /\ cookies' = [cookies EXCEPT ![b] = CallbackCookies(cookies[b], tokenRes, userRes)]
                /\ last' = ServedData(b, "callback", cookies[b].uid, NoId, 200, "GOOGLE_AUTH_SUCCESS",
                                      <<Call("oauth.code", tokenRes.refresh, 200),
                                        Call("userinfo", tokenRes.access, 200),
                                        Call("users.set", None, FsStatus(fs))>>,
                                      CallbackSet(tokenRes), userRes)

\* POST /api/auth/logout
Logout(b) ==
    /\ cookies' = [cookies EXCEPT ![b] = NoCookies]
    /\ last' = Served(b, "logout", cookies[b].uid, NoId, 200, "success", <<>>, {})
    /\ UNCHANGED <<users, userPhotos, results>>

\* GET /api/auth/me
Me(b) ==
    \E fsOk \in BOOLEAN :
        /\ last' = IF cookies[b].uid = None
                   THEN Served(b, "me", None, NoId, 401, "Not authenticated", <<>>, {})
                   ELSE IF ~fsOk
                   THEN Served(b, "me", cookies[b].uid, NoId, 500, "error", <<>>, {})
                   ELSE IF cookies[b].uid \notin users
                   THEN Served(b, "me", cookies[b].uid, NoId, 404, "User not found", <<>>, {})
                   ELSE Served(b, "me", cookies[b].uid, NoId, 200, "user", <<>>, {})
        /\ UNCHANGED <<cookies, users, userPhotos, results>>


----------------------------------------------------------------------------
(* photos.js *)

\* (a handler that looks for 403 where Google answers 401)
PickerShouldRefresh_Wrong(status, refreshToken) ==
    status = 403 /\ refreshToken # None

\* The handlers of picker/start and picker/items refresh when the failed
\* call answered 401 and a refresh token cookie exists.
PickerShouldRefresh(status, refreshToken) ==
    status = 401 /\ refreshToken # None

\* The token the retried call carries.
\* (a retry that sends the token that has just been refused)
RetryToken_Stale(accessToken, newToken) == accessToken
RetryToken(accessToken, newToken) == newToken

\* The downstream call of picker/start and picker/items with its refresh
\* path.  first, second: the answers of the call and of its retry;
\* refreshed: the token the refresh returns, None when the refresh fails.
\* Yields what reaches the handler's outer code: ok (resp is set), or the
\* thrown error's response status and body, with the calls made and the
\* cookies as the answer leaves them.
PickerCall(api, ck, first, refreshed, second) ==
    LET c1 == Call(api, ck.access, first.status) IN
    IF first.status = 200
    THEN [ok |-> TRUE, status |-> 200, err |-> NoErr, calls |-> <<c1>>,
          cookies |-> ck, set |-> {}]
    ELSE IF PickerShouldRefresh(first.status, ck.refresh)
    THEN IF refreshed = None
         THEN \* refreshAccessToken throws a plain Error: no response, no status
              [ok |-> FALSE, status |-> NoStatus, err |-> NoErr,
               calls |-> <<c1, Call("oauth.refresh", ck.refresh, 400)>>,
               cookies |-> ck, set |-> {}]
         ELSE [ok |-> second.status = 200, status |-> second.status, err |-> second.err,
               calls |-> <<c1, Call("oauth.refresh", ck.refresh, 200),
                           Call(api, RetryToken(ck.access, refreshed), second.status)>>,
               cookies |-> [ck EXCEPT !.access = refreshed],
               set |-> {"google_access_token"}]
    ELSE [ok |-> FALSE, status |-> first.status, err |-> first.err, calls |-> <<c1>>,
          cookies |-> ck, set |-> {}]

\* An upstream answer: a status, and for a 400 the error body.
Answers ==
    [status : UpstreamStatuses \ {400}, err : {NoErr}] \cup [status : {400}, err : ErrBodies]

PlainAnswers == [status : UpstreamStatuses, err : {NoErr}]

\* The inputs a handler never looks at are not enumerated: the refresh has an
\* answer only when it is made (a token other than the one that just failed,
\* or None when the refresh fails), the retry only after a refresh that gave
\* a token.
RefreshAnswers(made, ck) == IF made THEN (Tokens \ {ck.access}) \cup {None} ELSE {None}
RetryAnswers(answers, refreshed) ==
    IF refreshed # None THEN answers ELSE { CHOOSE a \in answers : TRUE }

\* POST /api/photos/picker/start
PickerStart(b) ==
    \E first \in PlainAnswers :
    \E refreshed \in RefreshAnswers(PickerShouldRefresh(first.status, cookies[b].refresh), cookies[b]) :
    \E second \in RetryAnswers(PlainAnswers, refreshed) :
    \E wellFormed \in BOOLEAN :
        /\ UNCHANGED <<users, userPhotos, results>>
        /\ IF cookies[b].access = None \/ cookies[b].uid = None
           THEN \* err.status = 401 is honoured by this handler's catch
                /\ last' = Served(b, "start", cookies[b].uid, NoId, 401, "Not authenticated", <<>>, {})
                /\ UNCHANGED cookies
           ELSE LET r == PickerCall("sessions.create", cookies[b], first, refreshed, second) IN
                /\ cookies' = [cookies EXCEPT ![b] = r.cookies]
                /\ last' = IF ~r.ok
                           THEN Served(b, "start", cookies[b].uid, NoId, OrServerError(r.status),
                                       "Failed to create picker session", r.calls, r.set)
                           ELSE IF ~wellFormed
                           THEN Served(b, "start", cookies[b].uid, NoId, 500,
                                       "Invalid response from Google Photos Picker API",
                                       r.calls, r.set)
                           ELSE Served(b, "start", cookies[b].uid, NoId, 200, "session", r.calls, r.set)

\* What the picker session's selection can be: up to MaxSel media items, each
\* known by its id (NoId when Google sends none); Google lists a media item
\* once.
Selections ==
    UNION { { s \in [1..n -> GooglePhotoIds \cup {NoId}] :
                \A i, j \in 1..n : (i # j /\ s[i] # NoId) => s[i] # s[j] } : n \in 0..MaxSel }

\* The catch block of picker/items: the answer for a thrown error.
ItemsError(status, err) ==
    IF /\ status = 400
       /\ \/ err.apiStatus = "FAILED_PRECONDITION"
          \/ err.message = "not picked media items"
          \/ err.message = "Please redirect the user"
    THEN [status |-> 202, body |-> "PENDING"]
    ELSE IF status = 404
    THEN [status |-> 404, body |-> "EXPIRED"]
    ELSE [status |-> OrServerError(status), body |-> "Failed to list picked media items"]

\* (a handler that ignores what the query found)
ExistingPhotoIds_Ignored(photos, userId, photoIds) == {}

\* The photoIds already stored for the user among those asked for.
ExistingPhotoIds(photos, userId, photoIds) ==
    { photos[d].photoId : d \in { e \in DocIds : /\ photos[e] # NoDoc
                                                  /\ photos[e].userId = userId
                                                  /\ photos[e].photoId \in photoIds
                                                  /\ photos[e].photoId # NoId } }

\* The items of the selection that get a new document.
PhotosToSave(sel, existing) ==
    LET Keep(id) == id = NoId \/ id \notin existing IN
    SelectSeq(sel, Keep)

FreeDocIds(photos) == { d \in DocIds : photos[d] = NoDoc }

NewPhoto(userId, photoId) ==
    [userId |-> userId, photoId |-> photoId, status |-> "pending", analysis |-> None]

\* The documents the batch writes: toSave[i] under the fresh id ids[i].
BatchSet(photos, userId, toSave, ids) ==
    [d \in DocIds |->
        IF \E i \in 1..Len(toSave) : ids[i] = d
        THEN NewPhoto(userId, toSave[CHOOSE i \in 1..Len(toSave) : ids[i] = d])
        ELSE photos[d]]

\* GET /api/photos/picker/items
PickerItems(b) ==
    \E hasSession \in BOOLEAN :
    \E first \in IF hasSession THEN Answers ELSE { CHOOSE a \in Answers : TRUE } :
    \E refreshed \in RefreshAnswers(hasSession /\ PickerShouldRefresh(first.status, cookies[b].refresh), cookies[b]) :
    \E second \in RetryAnswers(Answers, refreshed) :
    \E sel \in IF first.status = 200 \/ (refreshed # None /\ second.status = 200)
               THEN Selections ELSE {<<>>} :
    \E queryOk \in IF Len(sel) > 0 THEN BOOLEAN ELSE {TRUE} :
    \E commitOk \in IF Len(sel) > 0 /\ queryOk THEN BOOLEAN ELSE {TRUE} :
        /\ UNCHANGED <<users, results>>
        /\ IF ~hasSession
           THEN /\ last' = Served(b, "items", cookies[b].uid, NoId, 400, "sessionId is required", <<>>, {})
                /\ UNCHANGED <<cookies, userPhotos>>
           ELSE IF cookies[b].access = None \/ cookies[b].uid = None
           THEN \* the thrown error has err.status but no err.response
                /\ last' = ServedData(b, "items", cookies[b].uid, NoId,
                                      ItemsError(NoStatus, NoErr).status,
                                      ItemsError(NoStatus, NoErr).body, <<>>, {}, NoErr)
                /\ UNCHANGED <<cookies, userPhotos>>
           ELSE LET r == PickerCall("mediaItems.list", cookies[b], first, refreshed, second) IN
                /\ cookies' = [cookies EXCEPT ![b] = r.cookies]
                /\ IF ~r.ok
                   THEN /\ last' = ServedData(b, "items", cookies[b].uid, NoId,
                                              ItemsError(r.status, r.err).status,
                                              ItemsError(r.status, r.err).body, r.calls, r.set, r.err)
                        /\ UNCHANGED userPhotos
                   ELSE LET userId   == cookies[b].uid
                            photoIds == { sel[i] : i \in 1..Len(sel) } \ {NoId}
                            existing == ExistingPhotoIds(userPhotos, userId, photoIds)
                            toSave   == PhotosToSave(sel, existing)
                            queried  == Len(sel) > 0 /\ photoIds # {}
                            commits  == /\ Len(sel) > 0
                                        /\ (queried => queryOk)
                                        /\ Len(toSave) > 0
                            fsCalls  == (IF queried THEN <<FsCall("userPhotos.query", queryOk)>> ELSE <<>>)
                                        \o (IF commits THEN <<FsCall("userPhotos.commit", commitOk)>> ELSE <<>>)
                        IN  /\ last' = ServedData(b, "items", userId, NoId, 200, "DONE",
                                                  r.calls \o fsCalls, r.set, sel)
                            /\ IF ~commits \/ ~commitOk
                               THEN UNCHANGED userPhotos
                               ELSE \E ids \in [1..Len(toSave) -> FreeDocIds(userPhotos)] :
                                       /\ \A i, j \in 1..Len(toSave) : i # j => ids[i] # ids[j]
                                       /\ userPhotos' = BatchSet(userPhotos, userId, toSave, ids)

\* GET /api/photos/proxy answers an image fetch with one of these.
ImageStatuses == {200, 401, 403, 404, NoStatus}
LibraryStatuses == {200, 403}

\* The proxy refreshes when the first fetch answered 401 or 403 and a refresh
\* token cookie exists.
ProxyShouldRefresh(status, refreshToken) ==
    (status = 401 \/ status = 403) /\ refreshToken # None

\* The status the proxy looks at when deciding to ask for a fresh baseUrl: the
\* one of the first fetch.
ProxyBaseUrlStatus(first, afterRefresh) == first

ProxyShouldRefetchBaseUrl(hasImage, status, hasPhotoId) ==
    ~hasImage /\ (status = 403 \/ status = 404) /\ hasPhotoId

\* The catch block of the proxy.
ProxyError(status) ==
    IF status = 401 \/ status = 403
    THEN [status |-> status, body |-> "Failed to access image"]
    ELSE [status |-> OrServerError(status), body |-> "Failed to proxy image"]

\* GET /api/photos/proxy
\*   first, second, third : the answers of the image fetches
\*   refreshed            : the refreshed token, None when the refresh fails
\*   media                : the answer of mediaItems.get
\*   hasBaseUrl           : whether that answer carries a baseUrl
Proxy(b) ==
    \E hasUrl \in BOOLEAN :
    \E hasPhotoId \in IF hasUrl THEN BOOLEAN ELSE {FALSE} :
    \E first \in IF hasUrl THEN ImageStatuses ELSE {200} :
    \E refreshed \in RefreshAnswers(hasUrl /\ ProxyShouldRefresh(first, cookies[b].refresh), cookies[b]) :
    \E second \in RetryAnswers(ImageStatuses, refreshed) :
    \E media \in IF hasPhotoId /\ first # 200 /\ (refreshed = None \/ second # 200)
                 THEN LibraryStatuses ELSE {403} :
    \E hasBaseUrl \in IF media = 200 THEN BOOLEAN ELSE {FALSE} :
    \E third \in IF hasBaseUrl THEN ImageStatuses ELSE {200} :
        /\ UNCHANGED <<users, userPhotos, results>>
        /\ IF ~hasUrl
           THEN /\ last' = Served(b, "proxy", cookies[b].uid, NoId, 400, "URL parameter is required", <<>>, {})
                /\ UNCHANGED cookies
           ELSE IF cookies[b].access = None
           THEN /\ last' = Served(b, "proxy", cookies[b].uid, NoId, ProxyError(NoStatus).status,
                                  ProxyError(NoStatus).body, <<>>, {})
                /\ UNCHANGED cookies
           ELSE LET c1 == Call("image.original", cookies[b].access, first)
                    \* step 2: refresh and fetch again
                    doRefresh == first # 200 /\ ProxyShouldRefresh(first, cookies[b].refresh)
                    gotToken  == doRefresh /\ refreshed # None
                    c2 == IF ~doRefresh THEN <<>>
                          ELSE IF ~gotToken
                          THEN <<Call("oauth.refresh", cookies[b].refresh, 400)>>
                          ELSE <<Call("oauth.refresh", cookies[b].refresh, 200),
                                 Call("image.original", RetryToken(cookies[b].access, refreshed), second)>>
                    activeToken == IF gotToken THEN refreshed ELSE cookies[b].access
                    image2 == first = 200 \/ (gotToken /\ second = 200)
                    \* step 3: a fresh baseUrl from the Photos Library API
                    status == ProxyBaseUrlStatus(first, IF gotToken THEN second ELSE NoStatus)
                    doBase == first # 200 /\ ProxyShouldRefetchBaseUrl(image2, status, hasPhotoId)
                    c3 == IF ~doBase THEN <<>>
                          ELSE IF media # 200 \/ ~hasBaseUrl
                          THEN <<Call("mediaItems.get", activeToken, media)>>
                          ELSE <<Call("mediaItems.get", activeToken, 200),
                                 Call("image.fresh", activeToken, third)>>
                    image3 == image2 \/ (doBase /\ media = 200 /\ hasBaseUrl /\ third = 200)
                    calls == <<c1>> \o c2 \o c3
                    set == IF gotToken THEN {"google_access_token"} ELSE {}
                IN  /\ cookies' = [cookies EXCEPT ![b].access = activeToken]
                    /\ last' = IF image3
                               THEN ServedData(b, "proxy", cookies[b].uid, NoId, 200, "image", calls, set, hasPhotoId)
                               ELSE ServedData(b, "proxy", cookies[b].uid, NoId, ProxyError(first).status,
                                               ProxyError(first).body, calls, set, hasPhotoId)

\* The ids the pending list treats as analyzed: photoId and docId of the
\* user's results, and id and photoId of the user's analyzed userPhotos.
\* A query that fails contributes nothing.
AnalyzedPhotoIds(userId, resultsOk, analyzedOk) ==
    ((IF resultsOk
     THEN UNION { {results[r].photoId} \cup
                  (IF IdLength(results[r].photoId) < 30 THEN {results[r].photoId} ELSE {})
                  : r \in { q \in ResultIds : results[q] # NoDoc /\ results[q].userId = userId } }
     ELSE {}) \cup
    (IF analyzedOk
     THEN UNION { {d} \cup {userPhotos[d].photoId}
                  : d \in { e \in DocIds : /\ userPhotos[e] # NoDoc
                                           /\ userPhotos[e].userId = userId
                                           /\ userPhotos[e].status = "analyzed" } }
     ELSE {})) \ {NoId}

\* GET /api/photos/pending
\*   orderedOk, plainOk : the query with orderBy, and the one without
Pending(b) ==
    \E orderedOk \in BOOLEAN :
    \E plainOk \in IF orderedOk THEN {TRUE} ELSE BOOLEAN :
    \E resultsOk \in IF plainOk THEN BOOLEAN ELSE {TRUE} :
    \E analyzedOk \in IF plainOk THEN BOOLEAN ELSE {TRUE} :
        /\ UNCHANGED <<cookies, users, userPhotos, results>>
        /\ IF cookies[b].uid = None
           THEN \* the catch block answers every thrown error with 500
                last' = Served(b, "pending", None, NoId, 500, "Not authenticated", <<>>, {})
           ELSE IF ~plainOk
           THEN last' = Served(b, "pending", cookies[b].uid, NoId, 500, "Failed to load pending photos",
                               <<FsCall("userPhotos.query", FALSE), FsCall("userPhotos.query", FALSE)>>, {})
           ELSE LET userId   == cookies[b].uid
                    allItems == { d \in DocIds : /\ userPhotos[d] # NoDoc
                                                 /\ userPhotos[d].userId = userId
                                                 /\ userPhotos[d].status = "pending" }
                    analyzed == AnalyzedPhotoIds(userId, resultsOk, analyzedOk)
                    items    == { d \in allItems : ~ (d \in analyzed \/
                                      (userPhotos[d].photoId # NoId /\ userPhotos[d].photoId \in analyzed)) }
                IN  last' = ServedData(b, "pending", userId, NoId, 200, "items",
                                       <<FsCall("userPhotos.query", orderedOk)>>, {}, items)

\* DELETE /api/photos/:photoId
DeletePhoto(b) ==
    \E photoId \in DocIds :
    \E getOk \in BOOLEAN :
    \E deleteOk \in IF getOk THEN BOOLEAN ELSE {TRUE} :
        /\ UNCHANGED <<cookies, users, results>>
        /\ IF cookies[b].uid = None
           THEN /\ last' = Served(b, "deletePhoto", None, photoId, 500, "Not authenticated", <<>>, {})
                /\ UNCHANGED userPhotos
           ELSE IF ~getOk
           THEN /\ last' = Served(b, "deletePhoto", cookies[b].uid, photoId, 500, "Failed to delete photo",
                                  <<FsCall("userPhotos.get", FALSE)>>, {})
                /\ UNCHANGED userPhotos
           ELSE IF userPhotos[photoId] = NoDoc
           THEN /\ last' = Served(b, "deletePhoto", cookies[b].uid, photoId, 404, "Photo not found",
                                  <<FsCall("userPhotos.get", TRUE)>>, {})
                /\ UNCHANGED userPhotos
           ELSE IF userPhotos[photoId].userId # cookies[b].uid
           THEN /\ last' = Served(b, "deletePhoto", cookies[b].uid, photoId, 403,
                                  "You do not have permission to delete this photo",
                                  <<FsCall("userPhotos.get", TRUE)>>, {})
                /\ UNCHANGED userPhotos
           ELSE IF ~deleteOk
           THEN /\ last' = Served(b, "deletePhoto", cookies[b].uid, photoId, 500, "Failed to delete photo",
                                  <<FsCall("userPhotos.get", TRUE), FsCall("userPhotos.delete", FALSE)>>, {})
                /\ UNCHANGED userPhotos
           ELSE /\ last' = Served(b, "deletePhoto", cookies[b].uid, photoId, 200, "success",
                                  <<FsCall("userPhotos.get", TRUE), FsCall("userPhotos.delete", TRUE)>>, {})
                /\ userPhotos' = [userPhotos EXCEPT ![photoId] = NoDoc]

----------------------------------------------------------------------------
(* analysis.js *)

\* A reply of the generative model, as the pieces runGemini tells apart: a
\* markdown fence with (FENCE_JSON) or without (FENCE) the json tag, braces, an era_primary
\* field, the literal null, and any other text.
GeminiReplies ==
    { <<"{", "era", "}">>,
      <<"{", "}">>,
      <<"FENCE_JSON", "{", "era", "}", "FENCE">>,
      <<"FENCE", "{", "}", "FENCE">>,
      <<"junk", "{", "era", "}", "junk">>,
      <<"junk">>,
      <<"{", "era">>,
      <<"FENCE_JSON", "junk", "FENCE">>,
      <<"null">>,
      <<>> }

Fences == {"FENCE_JSON", "FENCE"}

DropFirst(text) == SubSeq(text, 2, Len(text))
DropLast(text) == SubSeq(text, 1, Len(text) - 1)

\* If the text starts with a fence: strip a leading json fence, a leading
\* plain fence and a trailing fence.
StripFences(text) ==
    IF Len(text) > 0 /\ text[1] \in Fences
    THEN LET a == IF text[1] = "FENCE_JSON" THEN DropFirst(text) ELSE text
             c == IF Len(a) > 0 /\ a[1] = "FENCE" THEN DropFirst(a) ELSE a
         IN  IF Len(c) > 0 /\ c[Len(c)] = "FENCE" THEN DropLast(c) ELSE c
    ELSE text

\* text.match(/\{[\s\S]*\}/): from the first { to the last } after it.
ExtractJson(text) ==
    LET opens  == { i \in 1..Len(text) : text[i] = "{" }
        closes == { j \in 1..Len(text) : text[j] = "}" }
    IN  IF \E i \in opens, j \in closes : i < j
        THEN LET i == CHOOSE x \in opens : \A y \in opens : x <= y
                 j == CHOOSE x \in closes : \A y \in closes : y <= x
             IN  SubSeq(text, i, j)
        ELSE text

\* JSON.parse followed by the filling of the missing fields: an object with
\* or without era_primary is accepted; null parses but the field accesses on
\* it throw, inside the same try; anything else does not parse.
ParsesAsObject(text) ==
    text \in { <<"{", "era", "}">>, <<"{", "}">> }

ParseFallback ==
    [era |-> "Undetermined", parse_error |-> TRUE]

\* runGemini on a reply that the service returned: the parsed result or the
\* default structure flagged parse_error.
RunGemini(reply) ==
    LET text == ExtractJson(StripFences(reply)) IN
    IF ParsesAsObject(text)
    THEN [era |-> IF "era" \in {text[i] : i \in 1..Len(text)} THEN "1950s" ELSE "Undetermined",
          parse_error |-> FALSE]
    ELSE [era |-> ParseFallback.era, parse_error |-> TRUE]

\* (a handler that keeps what runGemini returned)
GeminiResult_Kept(gemini) == gemini.era

\* The geminiResult the handler stores: the fallback with era_primary
\* 'Unknown' replaces a result flagged parse_error.
GeminiResult(gemini) ==
    IF gemini.parse_error THEN "Unknown" ELSE gemini.era

\* A mirrored photo that an analysis has marked, with its result inside.
AnalyzedPhoto(userId, photoId, era) ==
    [userId |-> userId, photoId |-> photoId, status |-> "analyzed", analysis |-> era]

\* A results document.
Result(userId, photoId, era) == [userId |-> userId, photoId |-> photoId, era |-> era]

FreeResultIds == { r \in ResultIds : results[r] = NoDoc }

\* if (photoId && photoId.length < 30)
LooksLikeDocId(photoId) == photoId # NoId /\ IdLength(photoId) < 30

\* The caller's userPhotos document under this id, if there is one.
OwnPhoto(photoId, userId) ==
    /\ photoId \in DocIds
    /\ userPhotos[photoId] # NoDoc
    /\ userPhotos[photoId].userId = userId

\* (a handler that stops after the second storage method)
TryStatusOnly_Never(saved, photoId) == FALSE

\* Method 3 runs when nothing was saved and the photoId looks like a doc id.
TryStatusOnly(saved, photoId) == ~saved /\ LooksLikeDocId(photoId)

\* The storage part of POST /api/analysis/analyze.
\*   primaryOk            : results/{resultId}.set
\*   get2Ok, update2Ok    : method 2's read and update of userPhotos/{photoId}
\*   get3Ok, update3Ok    : method 3's read and update
\* Yields the stores, the resultId answered and the Firestore calls made.
SaveResult(userId, photoId, era, rid, primaryOk, get2Ok, update2Ok, get3Ok, update3Ok) ==
    IF primaryOk
    THEN [results |-> [results EXCEPT ![rid] = Result(userId, photoId, era)],
          userPhotos |-> userPhotos, resultId |-> rid,
          calls |-> <<FsCall("results.set", TRUE)>>]
    ELSE LET try2   == LooksLikeDocId(photoId)
             saved  == try2 /\ get2Ok /\ OwnPhoto(photoId, userId) /\ update2Ok
             calls2 == IF ~try2 THEN <<>>
                       ELSE <<FsCall("userPhotos.get", get2Ok)>> \o
                            (IF get2Ok /\ OwnPhoto(photoId, userId)
                             THEN <<FsCall("userPhotos.update.result", update2Ok)>> ELSE <<>>)
             try3   == TryStatusOnly(saved, photoId)
             done3  == try3 /\ get3Ok /\ OwnPhoto(photoId, userId) /\ update3Ok
             calls3 == IF ~try3 THEN <<>>
                       ELSE <<FsCall("userPhotos.get", get3Ok)>> \o
                            (IF get3Ok /\ OwnPhoto(photoId, userId)
                             THEN <<FsCall("userPhotos.update.status", update3Ok)>> ELSE <<>>)
         IN  [results |-> results,
              userPhotos |->
                  IF saved
                  THEN [userPhotos EXCEPT ![photoId].status = "analyzed", ![photoId].analysis = era]
                  ELSE IF done3
                  THEN [userPhotos EXCEPT ![photoId].status = "analyzed"]
                  ELSE userPhotos,
              resultId |-> IF saved THEN photoId ELSE TempResultId,
              calls |-> <<FsCall("results.set", FALSE)>> \o calls2 \o calls3]

AnalyzeIds == DocIds \cup GooglePhotoIds

\* The response of a successful analysis: what Gemini replied, the stored
\* geminiResult and the resultId.
Analyzed(reply, era, resultId) ==
    [reply |-> reply, era |-> era, resultId |-> resultId]

\* (a handler whose catch block does not see an error thrown by Gemini)
Throws_VisionOnly(visionOk, reply) == ~visionOk

\* The try block of /analyze awaits runVision and then runGemini; an error
\* thrown by either (runVision and runGemini rethrow what they catch) leaves
\* the try block for the catch block before the storage stage is reached.
\* reply = <<None>> stands for a Gemini call that throws.
Throws(visionOk, reply) == ~visionOk \/ reply = <<None>>

\* POST /api/analysis/analyze
\*   photoId, hasImageUrl : the body (NoId: no photoId)
\*   visionOk             : runVision returns (else it throws)
\*   hasKey               : GEMINI_API_KEY is set
\*   reply                : the model's reply, <<None>> when the call throws
\*   primaryOk .. update3Ok : the Firestore answers, see SaveResult
Analyze(b) ==
    LET userId == cookies[b].uid IN
    \E photoId \in AnalyzeIds \cup {NoId} :
    \E hasImageUrl \in IF userId # None THEN BOOLEAN ELSE {TRUE} :
    \E visionOk \in IF userId # None /\ photoId # NoId /\ hasImageUrl THEN BOOLEAN ELSE {FALSE} :
    \E hasKey \in IF visionOk THEN BOOLEAN ELSE {FALSE} :
    \E reply \in IF hasKey THEN GeminiReplies \cup {<<None>>} ELSE {<<>>} :
    LET stores == ~Throws(visionOk, reply)
        stages == <<Call("vision", None, IF visionOk THEN 200 ELSE 500)>> \o
                  (IF visionOk /\ hasKey
                   THEN <<Call("gemini", None, IF reply = <<None>> THEN 500 ELSE 200)>>
                   ELSE <<>>)
        short  == stores /\ LooksLikeDocId(photoId)
        own    == short /\ OwnPhoto(photoId, userId)
    IN
    \E primaryOk \in IF stores THEN BOOLEAN ELSE {TRUE} :
    \E get2Ok \in IF short /\ ~primaryOk THEN BOOLEAN ELSE {TRUE} :
    \E update2Ok \in IF own /\ ~primaryOk /\ get2Ok THEN BOOLEAN ELSE {FALSE} :
    \E get3Ok \in IF short /\ ~primaryOk /\ ~update2Ok THEN BOOLEAN ELSE {TRUE} :
    \E update3Ok \in IF own /\ ~primaryOk /\ ~update2Ok /\ get3Ok THEN BOOLEAN ELSE {FALSE} :
        /\ UNCHANGED <<cookies, users>>
        /\ IF userId = None
           THEN /\ last' = Served(b, "analyze", None, photoId, 401, "Not authenticated", <<>>, {})
                /\ UNCHANGED <<userPhotos, results>>
           ELSE IF photoId = NoId \/ ~hasImageUrl
           THEN /\ last' = Served(b, "analyze", userId, photoId, 400,
                                  "photoId and imageUrl are required", <<>>, {})
                /\ UNCHANGED <<userPhotos, results>>
           ELSE IF Throws(visionOk, reply)
           THEN /\ last' = Served(b, "analyze", userId, photoId, 500, "Analysis failed", stages, {})
                /\ UNCHANGED <<userPhotos, results>>
           ELSE \E rid \in IF primaryOk THEN FreeResultIds ELSE {TempResultId} :
                LET era == IF hasKey THEN GeminiResult(RunGemini(reply)) ELSE "null"
                    sv  == SaveResult(userId, photoId, era, rid,
                                      primaryOk, get2Ok, update2Ok, get3Ok, update3Ok)
                IN  /\ results' = sv.results
                    /\ userPhotos' = sv.userPhotos
                    /\ last' = ServedData(b, "analyze", userId, photoId, 200, "success",
                                          stages \o sv.calls, {},
                                          Analyzed(reply, era, sv.resultId))

\* What GET /api/analysis/check answers when it found something: the id and
\* the document's data (its owner and geminiResult).
Found(id, owner, era) == [exists |-> TRUE, resultId |-> id, owner |-> owner, era |-> era]
NotFound == [exists |-> FALSE, resultId |-> NoId, owner |-> None, era |-> None]

\* The results documents of userId with this photoId (or docId).
ResultsFor(userId, queryId) ==
    { r \in ResultIds : /\ results[r] # NoDoc
                        /\ results[r].userId = userId
                        /\ results[r].photoId = queryId }

\* Method 2 of the check: the userPhotos document under this id exists,
\* belongs to the caller and carries an analysisResult.
CheckUserPhoto(userId, queryId) ==
    /\ queryId \in DocIds
    /\ userPhotos[queryId] # NoDoc
    /\ userPhotos[queryId].userId = userId
    /\ userPhotos[queryId].analysis # None

\* One round of the loop of GET /api/analysis/check over queryIds: the
\* answers it can end the loop with, NotFound when it goes on.
\*   m1Ok, m2Ok, m3Ok : the three Firestore reads succeed
CheckOne(userId, queryId, m1Ok, m2Ok, m3Ok) ==
    IF m1Ok /\ ResultsFor(userId, queryId) # {}
    THEN { Found(r, results[r].userId, results[r].era) : r \in ResultsFor(userId, queryId) }
    ELSE IF IdLength(queryId) < 30 /\ m2Ok /\ CheckUserPhoto(userId, queryId)
    THEN { Found(queryId, userPhotos[queryId].userId, userPhotos[queryId].analysis) }
    ELSE IF m3Ok /\ ResultsFor(userId, queryId) # {}
    THEN { Found(r, results[r].userId, results[r].era) : r \in ResultsFor(userId, queryId) }
    ELSE { NotFound }

\* queryIds: docId first, then photoId when it differs.
QueryIds(photoId, docId) ==
    (IF docId # NoId THEN <<docId>> ELSE <<>>) \o
    (IF photoId # NoId /\ photoId # docId THEN <<photoId>> ELSE <<>>)

\* GET /api/analysis/check?photoId=&docId=
Check(b) ==
    LET userId == cookies[b].uid IN
    \E photoId \in AnalyzeIds \cup {NoId} :
    \E docId \in DocIds \cup {NoId} :
    LET queryIds == QueryIds(photoId, docId)
        asked    == userId # None /\ Len(queryIds) > 0
    IN
    \E m1Ok \in IF asked THEN BOOLEAN ELSE {TRUE} :
    \E m2Ok \in IF asked THEN BOOLEAN ELSE {TRUE} :
    \E m3Ok \in IF asked THEN BOOLEAN ELSE {TRUE} :
        /\ UNCHANGED <<cookies, users, userPhotos, results>>
        /\ IF userId = None
           THEN last' = Served(b, "check", None, photoId, 401, "Not authenticated", <<>>, {})
           ELSE IF Len(queryIds) = 0
           THEN last' = Served(b, "check", userId, photoId, 400, "photoId or docId is required", <<>>, {})
           ELSE \E first \in CheckOne(userId, queryIds[1], m1Ok, m2Ok, m3Ok) :
                \E answer \in IF first.exists \/ Len(queryIds) = 1
                              THEN {first}
                              ELSE CheckOne(userId, queryIds[2], m1Ok, m2Ok, m3Ok) :
                    last' = ServedData(b, "check", userId, photoId, 200, "exists",
                                       <<FsCall("results.query", m1Ok)>>, {}, answer)

\* if (data.userId !== userId) return 403, in GET /result/:resultId
MayReadResult(data, userId) == data.userId = userId

\* GET /api/analysis/result/:resultId
GetResult(b) ==
    LET userId == cookies[b].uid IN
    \E resultId \in ResultIds :
    \E getOk \in IF userId # None THEN BOOLEAN ELSE {TRUE} :
        /\ UNCHANGED <<cookies, users, userPhotos, results>>
        /\ IF userId = None
           THEN last' = Served(b, "getResult", None, resultId, 401, "Not authenticated", <<>>, {})
           ELSE IF ~getOk
           THEN last' = Served(b, "getResult", userId, resultId, 500, "Failed to get result",
                               <<FsCall("results.get", FALSE)>>, {})
           ELSE IF results[resultId] = NoDoc
           THEN last' = Served(b, "getResult", userId, resultId, 404, "Result not found",
                               <<FsCall("results.get", TRUE)>>, {})
           ELSE IF ~MayReadResult(results[resultId], userId)
           THEN last' = Served(b, "getResult", userId, resultId, 403, "Access denied",
                               <<FsCall("results.get", TRUE)>>, {})
           ELSE last' = ServedData(b, "getResult", userId, resultId, 200, "result",
                                   <<FsCall("results.get", TRUE)>>, {},
                                   Found(resultId, results[resultId].userId, results[resultId].era))

\* GET /api/analysis/results
\*   orderedOk, plainOk : the query with orderBy, and the one without
Results(b) ==
    LET userId == cookies[b].uid IN
    \E orderedOk \in IF userId # None THEN BOOLEAN ELSE {TRUE} :
    \E plainOk \in IF orderedOk THEN {TRUE} ELSE BOOLEAN :
        /\ UNCHANGED <<cookies, users, userPhotos, results>>
        /\ IF userId = None
           THEN last' = Served(b, "results", None, NoId, 401, "Not authenticated", <<>>, {})
           ELSE IF ~plainOk
           THEN last' = Served(b, "results", userId, NoId, 500, "Failed to fetch results",
                               <<FsCall("results.query", FALSE), FsCall("results.query", FALSE)>>, {})
           ELSE last' = ServedData(b, "results", userId, NoId, 200, "items",
                                   <<FsCall("results.query", orderedOk)>>, {},
                                   { r \in ResultIds : results[r] # NoDoc /\ results[r].userId = userId })

\* (a handler that lets anyone delete a result)
MayDeleteResult_Anyone(data, userId) == TRUE

\* if (data.userId !== userId) return 403, in DELETE /result/:resultId
MayDeleteResult(data, userId) == data.userId = userId

\* DELETE /api/analysis/result/:resultId
DeleteResult(b) ==
    LET userId == cookies[b].uid IN
    \E resultId \in ResultIds :
    \E getOk \in IF userId # None THEN BOOLEAN ELSE {TRUE} :
    \E deleteOk \in IF userId # None /\ getOk THEN BOOLEAN ELSE {TRUE} :
        /\ UNCHANGED <<cookies, users, userPhotos>>
        /\ IF userId = None
           THEN /\ last' = Served(b, "deleteResult", None, resultId, 401, "Not authenticated", <<>>, {})
                /\ UNCHANGED results
           ELSE IF ~getOk
           THEN /\ last' = Served(b, "deleteResult", userId, resultId, 500, "Failed to delete result",
                                  <<FsCall("results.get", FALSE)>>, {})
                /\ UNCHANGED results
           ELSE IF results[resultId] = NoDoc
           THEN /\ last' = Served(b, "deleteResult", userId, resultId, 404, "Result not found",
                                  <<FsCall("results.get", TRUE)>>, {})
                /\ UNCHANGED results
           ELSE IF ~MayDeleteResult(results[resultId], userId)
           THEN /\ last' = Served(b, "deleteResult", userId, resultId, 403,
                                  "You do not have permission to delete this result",
                                  <<FsCall("results.get", TRUE)>>, {})
                /\ UNCHANGED results
           ELSE IF ~deleteOk
           THEN /\ last' = Served(b, "deleteResult", userId, resultId, 500, "Failed to delete result",
                                  <<FsCall("results.get", TRUE), FsCall("results.delete", FALSE)>>, {})
                /\ UNCHANGED results
           ELSE /\ last' = Served(b, "deleteResult", userId, resultId, 200, "success",
                                  <<FsCall("results.get", TRUE), FsCall("results.delete", TRUE)>>, {})
                /\ results' = [results EXCEPT ![resultId] = NoDoc]

----------------------------------------------------------------------------
(* auth.js *)

\* The users collection holds the documents that register adds (accounts,
\* under Firestore auto ids) next to the profiles that the Google callback
\* sets under the Google user id (users).
AccountNames == <<"k1", "k2", "k3", "k4">>
AccountIds == { AccountNames[i] : i \in 1..MaxAccounts }

\* Emails as submitted; NoEmail is one that isEmail() rejects.
Emails == {"A@x.org", "a@x.org", "b@x.org"}
NoEmail == "not-an-email"

\* normalizeEmail(): lower-cases the address.
NormalizeEmail(email) == IF email = "A@x.org" THEN "a@x.org" ELSE email

\* Passwords; ShortPassword has fewer than 6 characters, NoPassword is a
\* missing field.
Passwords == {"secret1", "secret2"}
ShortPassword == "pw"
NoPassword == None

\* The email in the profile of a Google user.
GoogleEmail(userId) == IF userId = "u1" THEN "a@x.org" ELSE "g@x.org"

\* bcrypt.hash(password, 12)
Hash(password) == <<"bcrypt", password>>

\* Whether bcrypt.compare(password, hash) is reached with a hash at all: it
\* rejects when the document has no password field.
HasHash(doc) == doc.password # None

\* bcrypt.compare(password, hash)
Compare(password, hash) == hash = Hash(password)

\* jwt.sign({ userId }, JWT_SECRET)
Jwt(userId) == [userId |-> userId]
NoToken == Jwt(None)
BadToken == Jwt("garbage")

\* A users document that register added.  raw: the email as the request
\* carried it (not stored; kept to tell which request created the document).
Account(email, raw, password, lastLogin) ==
    [email |-> email, raw |-> raw, password |-> password, lastLogin |-> lastLogin]

NoAccount == [email |-> None]

\* A users document as login sees it, whoever wrote it.
UserDoc(id) ==
    IF id \in AccountIds
    THEN [id |-> id, email |-> accounts[id].email, password |-> accounts[id].password]
    ELSE [id |-> id, email |-> GoogleEmail(id), password |-> None]

\* db.collection('users').where('email', '==', email): the ids of the
\* documents found.
UsersByEmail(email) ==
    { id \in AccountIds : accounts[id] # NoAccount /\ accounts[id].email = email } \cup
    { u \in users : GoogleEmail(u) = email }

FreeAccountIds == { id \in AccountIds : accounts[id] = NoAccount }

\* The body of a register or login request and what the answer carries.
Credentials(email, password, token, user) ==
    [email |-> email, password |-> password, token |-> token, user |-> user]

\* POST /api/auth/register
Register ==
    \E nameOk \in BOOLEAN :
    \E raw \in Emails \cup {NoEmail} :
    \E password \in Passwords \cup {ShortPassword} :
    LET valid == nameOk /\ raw # NoEmail /\ password # ShortPassword
        email == NormalizeEmail(raw)
    IN
    \E queryOk \in IF valid THEN BOOLEAN ELSE {TRUE} :
    \E addOk \in IF valid /\ queryOk /\ UsersByEmail(email) = {} THEN BOOLEAN ELSE {TRUE} :
        /\ UNCHANGED <<cookies, users, userPhotos, results, poll>>
        /\ IF ~valid
           THEN /\ last' = ServedData(None, "register", None, NoId, 400, "errors", <<>>, {},
                                      Credentials(raw, password, NoToken, None))
                /\ UNCHANGED accounts
           ELSE IF ~queryOk
           THEN /\ last' = ServedData(None, "register", None, NoId, 500, "Internal server error",
                                      <<FsCall("users.query", FALSE)>>, {},
                                      Credentials(raw, password, NoToken, None))
                /\ UNCHANGED accounts
           ELSE IF UsersByEmail(email) # {}
           THEN /\ last' = ServedData(None, "register", None, NoId, 400, "User already exists",
                                      <<FsCall("users.query", TRUE)>>, {},
                                      Credentials(raw, password, NoToken, None))
                /\ UNCHANGED accounts
           ELSE IF ~addOk
           THEN /\ last' = ServedData(None, "register", None, NoId, 500, "Internal server error",
                                      <<FsCall("users.query", TRUE), FsCall("users.add", FALSE)>>, {},
                                      Credentials(raw, password, NoToken, None))
                /\ UNCHANGED accounts
           ELSE \E id \in FreeAccountIds :
                /\ accounts' = [accounts EXCEPT ![id] = Account(email, raw, Hash(password), None)]
                /\ last' = ServedData(None, "register", None, NoId, 201, "User created successfully",
                                      <<FsCall("users.query", TRUE), FsCall("users.add", TRUE)>>, {},
                                      Credentials(raw, password, Jwt(id), [id |-> id, email |-> email]))

\* userQuery.docs[0]: the first of the documents found, in the order
\* Firestore lists them (by document id, which no code here chooses).
FirstDoc(found) == found

\* POST /api/auth/login
Login ==
    \E raw \in Emails \cup {NoEmail} :
    \E password \in Passwords \cup {NoPassword} :
    LET valid == raw # NoEmail /\ password # NoPassword
        email == NormalizeEmail(raw)
        found == IF valid THEN UsersByEmail(email) ELSE {}
    IN
    \E queryOk \in IF valid THEN BOOLEAN ELSE {TRUE} :
    \E id \in IF queryOk /\ found # {} THEN FirstDoc(found) ELSE {None} :
    LET doc     == UserDoc(id)
        matches == id # None /\ HasHash(doc) /\ Compare(password, doc.password)
    IN
    \E updateOk \in IF matches THEN BOOLEAN ELSE {TRUE} :
        /\ UNCHANGED <<cookies, users, userPhotos, results, poll>>
        /\ IF ~valid
           THEN /\ last' = ServedData(None, "login", None, NoId, 400, "errors", <<>>, {},
                                      Credentials(raw, password, NoToken, None))
                /\ UNCHANGED accounts
           ELSE IF ~queryOk
           THEN /\ last' = ServedData(None, "login", None, NoId, 500, "Internal server error",
                                      <<FsCall("users.query", FALSE)>>, {},
                                      Credentials(raw, password, NoToken, None))
                /\ UNCHANGED accounts
           ELSE IF found = {}
           THEN /\ last' = ServedData(None, "login", None, NoId, 401, "Invalid credentials",
                                      <<FsCall("users.query", TRUE)>>, {},
                                      Credentials(raw, password, NoToken, None))
                /\ UNCHANGED accounts
           ELSE IF ~HasHash(doc)
           THEN \* bcrypt.compare rejects: Illegal arguments
                /\ last' = ServedData(None, "login", None, NoId, 500, "Internal server error",
                                      <<FsCall("users.query", TRUE)>>, {},
                                      Credentials(raw, password, NoToken, None))
                /\ UNCHANGED accounts
           ELSE IF ~Compare(password, doc.password)
           THEN /\ last' = ServedData(None, "login", None, NoId, 401, "Invalid credentials",
                                      <<FsCall("users.query", TRUE)>>, {},
                                      Credentials(raw, password, NoToken, None))
                /\ UNCHANGED accounts
           ELSE IF ~updateOk
           THEN /\ last' = ServedData(None, "login", None, NoId, 500, "Internal server error",
                                      <<FsCall("users.query", TRUE), FsCall("users.update", FALSE)>>, {},
                                      Credentials(raw, password, NoToken, None))
                /\ UNCHANGED accounts
           ELSE /\ accounts' = [accounts EXCEPT ![id].lastLogin = "now"]
                /\ last' = ServedData(None, "login", None, NoId, 200, "Login successful",
                                      <<FsCall("users.query", TRUE), FsCall("users.update", TRUE)>>, {},
                                      Credentials(raw, password, Jwt(id), [id |-> id, email |-> doc.email]))

\* The tokens a client can hold: none, one that jwt.verify rejects, or one
\* that register or login issued for an existing document.
HeldTokens ==
    {NoToken, BadToken} \cup { Jwt(id) : id \in { a \in AccountIds : accounts[a] # NoAccount } }

\* GET /api/auth/verify behind authenticateToken
\*   expired : the token's expiresIn has passed
Verify ==
    \E token \in HeldTokens :
    \E expired \in IF token \notin {NoToken, BadToken} THEN BOOLEAN ELSE {FALSE} :
    \E getOk \in IF token \notin {NoToken, BadToken} /\ ~expired THEN BOOLEAN ELSE {TRUE} :
        /\ UNCHANGED <<cookies, users, accounts, userPhotos, results, poll>>
        /\ IF token = NoToken
           THEN last' = ServedData(None, "verify", None, NoId, 401, "Access token required", <<>>, {},
                                   Credentials(None, None, token, None))
           ELSE IF token = BadToken \/ expired
           THEN last' = ServedData(None, "verify", None, NoId, 403, "Invalid or expired token", <<>>, {},
                                   Credentials(None, None, token, None))
           ELSE IF ~getOk
           THEN last' = ServedData(None, "verify", None, NoId, 403, "Invalid or expired token",
                                   <<FsCall("users.get", FALSE)>>, {},
                                   Credentials(None, None, token, None))
           ELSE IF accounts[token.userId] = NoAccount
           THEN last' = ServedData(None, "verify", None, NoId, 401, "User not found",
                                   <<FsCall("users.get", TRUE)>>, {},
                                   Credentials(None, None, token, None))
           ELSE last' = ServedData(None, "verify", None, NoId, 200, "valid",
                                   <<FsCall("users.get", TRUE)>>, {},
                                   Credentials(None, None, token,
                                               [id |-> token.userId, email |-> accounts[token.userId].email]))

----------------------------------------------------------------------------
(* frontend: pollPickerSession *)

maxAttempts == 40

\* What apiGet('/api/photos/picker/items?...') can end with:
\*   PENDING, DONE  : a 202 / 200 answer whose JSON body carries that status
\*   unexpected     : an answer that is neither (no JSON body, other status field)
\*   error          : apiRequest throws (answer not ok and not 202, or fetch fails)
\*   error202       : it throws an error whose message contains '202'
PollAnswers == {"PENDING", "DONE", "unexpected", "error", "error202"}

\* One call of pollPickerSession.  pc: where the call is; attempt: the loop
\* counter; sent: requests issued to picker/items; inflight: those not yet
\* answered; answer: what the latest request ended with; outcome: how the
\* call ended.
PollState(pc, attempt, sent, inflight, answer, outcome) ==
    [pc |-> pc, attempt |-> attempt, sent |-> sent, inflight |-> inflight,
     answer |-> answer, outcome |-> outcome]

NotPolling == PollState("idle", 0, 0, 0, None, None)

\* (a loop that goes round once more)
PollAgain_OneMore(attempt) == attempt <= maxAttempts

\* while (attempt < maxAttempts)
PollAgain(attempt) == attempt < maxAttempts

\* The loop head: another round, or the polling timeout.
PollLoop(p) ==
    IF PollAgain(p.attempt)
    THEN [p EXCEPT !.pc = "sleeping", !.attempt = p.attempt + 1]
    ELSE [p EXCEPT !.pc = "returned", !.outcome = "timeout"]

\* The picker button's handler calls pollPickerSession(sessionId).
PollCall ==
    /\ poll.pc = "idle"
    /\ \E hasSessionId \in BOOLEAN :
          poll' = IF hasSessionId
                  THEN PollLoop(poll)
                  ELSE [poll EXCEPT !.pc = "returned", !.outcome = "threw"]
    /\ UNCHANGED serverVars

\* The 3 s timer fires and apiGet sends the request.
PollSend ==
    /\ poll.pc = "sleeping"
    /\ poll' = [poll EXCEPT !.pc = "inflight", !.sent = poll.sent + 1,
                            !.inflight = poll.inflight + 1]
    /\ UNCHANGED serverVars

\* apiGet returns or throws, and the loop body decides.
PollReceive ==
    /\ poll.pc = "inflight"
    /\ \E answer \in PollAnswers :
          LET p == [poll EXCEPT !.inflight = poll.inflight - 1, !.answer = answer] IN
          poll' = IF answer \in {"PENDING", "error202"}
                  THEN PollLoop(p)
                  ELSE IF answer \in {"DONE", "error"}
                  THEN [p EXCEPT !.pc = "loading"]
                  ELSE [p EXCEPT !.pc = "returned", !.outcome = "unexpected"]
    /\ UNCHANGED serverVars

\* await loadPendingPhotos() comes back (it catches its own errors).
PollLoaded ==
    /\ poll.pc = "loading"
    /\ poll' = [poll EXCEPT !.pc = "returned",
                            !.outcome = IF poll.answer = "DONE" THEN "done" ELSE "failed"]
    /\ UNCHANGED serverVars

\* The button is enabled again and may be clicked for another session.
PollReset ==
    /\ poll.pc = "returned"
    /\ poll' = NotPolling
    /\ UNCHANGED serverVars

----------------------------------------------------------------------------
(* dashboard.js *)

\* The middleware in front of every dashboard route: it calls next() for
\* every request.  TRUE: the request goes on to the handler.
AuthenticateToken(hasToken, uid) == TRUE

\* GET /api/dashboard/stats, /profile, /activity
\*   hasToken : whether the request carries an Authorization header
Dashboard(route, b) ==
    \E hasToken \in BOOLEAN, fsOk \in BOOLEAN :
        /\ UNCHANGED <<cookies, users, userPhotos, results>>
        /\ last' = IF ~AuthenticateToken(hasToken, cookies[b].uid)
                   THEN ServedData(b, route, cookies[b].uid, NoId, 401, "Not authenticated", <<>>, {}, hasToken)
                   ELSE IF ~fsOk
                   THEN ServedData(b, route, cookies[b].uid, NoId, 500, "error", <<>>, {}, hasToken)
                   ELSE ServedData(b, route, cookies[b].uid, NoId, 200, route, <<>>, {}, hasToken)

DashboardStats(b) == Dashboard("stats", b)
DashboardProfile(b) == Dashboard("profile", b)
DashboardActivity(b) == Dashboard("activity", b)

----------------------------------------------------------------------------

Init ==
    /\ cookies = [b \in Browsers |-> NoCookies]
    /\ users = {}
    /\ userPhotos = [d \in DocIds |-> NoDoc]
    /\ results = [r \in ResultIds |-> NoDoc]
    /\ last = Served(None, "none", None, NoId, NoStatus, "none", <<>>, {})
    /\ poll = NotPolling
    /\ accounts = [id \in AccountIds |-> NoAccount]

\* Both users have signed in before: their profiles are stored.
InitSignedUp ==
    /\ cookies = [b \in Browsers |-> NoCookies]
    /\ users = Users
    /\ userPhotos = [d \in DocIds |-> NoDoc]
    /\ results = [r \in ResultIds |-> NoDoc]
    /\ last = Served(None, "none", None, NoId, NoStatus, "none", <<>>, {})
    /\ poll = NotPolling
    /\ accounts = [id \in AccountIds |-> NoAccount]

\* b1 is signed in as u1 and b2 as u2, b3 is signed out.
SignedIn ==
    [b \in Browsers |->
        IF b = "b1" THEN [uid |-> "u1", access |-> "tA", refresh |-> "rA"]
        ELSE IF b = "b2" THEN [uid |-> "u2", access |-> "tB", refresh |-> None]
        ELSE NoCookies]

\* u1 has mirrored the first photo and u2 the others; nothing is analyzed.
InitAnalysis ==
    /\ cookies = SignedIn
    /\ users = Users
    /\ userPhotos = [d \in DocIds |-> NewPhoto(IF d = 1 THEN "u1" ELSE "u2", NoId)]
    /\ results = [r \in ResultIds |-> NoDoc]
    /\ last = Served(None, "none", None, NoId, NoStatus, "none", <<>>, {})
    /\ poll = NotPolling
    /\ accounts = [id \in AccountIds |-> NoAccount]

\* The stores after some mirroring and analyses: every photo belongs to one
\* of the users and is pending or analyzed, every results document is absent
\* or holds a user's analysis of a photo named by doc id or by Google id.
InitOwnership ==
    /\ cookies = SignedIn
    /\ users = Users
    /\ userPhotos \in [DocIds -> { NewPhoto(u, NoId) : u \in Users } \cup
                                 { AnalyzedPhoto(u, NoId, "1950s") : u \in Users }]
    /\ results \in [ResultIds -> {NoDoc} \cup
                                 { Result(u, p, "1950s") : u \in Users, p \in {1} \cup GooglePhotoIds }]
    /\ last = Served(None, "none", None, NoId, NoStatus, "none", <<>>, {})
    /\ poll = NotPolling
    /\ accounts = [id \in AccountIds |-> NoAccount]

NextAuth ==
    /\ UNCHANGED <<poll, accounts>>
    /\ \E b \in {"b1"} :
           \/ GoogleCallback(b)
           \/ Logout(b)
           \/ Me(b)
           \/ DashboardStats(b)
           \/ DashboardProfile(b)
           \/ DashboardActivity(b)

NextPhotos ==
    /\ UNCHANGED <<poll, accounts>>
    /\ \E b \in {"b1"} :
           \/ GoogleCallback(b)
           \/ Logout(b)
           \/ PickerStart(b)
           \/ PickerItems(b)
           \/ Proxy(b)
           \/ Pending(b)
           \/ DeletePhoto(b)

NextAnalysis ==
    /\ UNCHANGED <<poll, accounts>>
    /\ \E b \in {"b1"} :
           \/ Analyze(b)
           \/ DeleteResult(b)
           \/ DeletePhoto(b)

NextOwnership ==
    /\ UNCHANGED <<poll, accounts>>
    /\ \E b \in Browsers :
           \/ Check(b)
           \/ GetResult(b)
           \/ Results(b)
           \/ DeleteResult(b)
           \/ DeletePhoto(b)

NextAccounts ==
    \/ Register
    \/ Login
    \/ Verify
    \/ (UNCHANGED <<poll, accounts>> /\ GoogleCallback("b1"))

NextPoll ==
    \/ PollCall
    \/ PollSend
    \/ PollReceive
    \/ PollLoaded
    \/ PollReset

Next ==
    \/ NextAuth
    \/ NextPhotos
    \/ NextAnalysis
    \/ NextOwnership
    \/ NextAccounts
    \/ NextPoll

Spec == Init /\ [][Next]_vars

\* One browser on the sign-in routes and the dashboard.
SpecAuth == Init /\ [][NextAuth]_vars

\* One browser on the photo routes; the users' profiles are stored.
SpecPhotos == InitSignedUp /\ [][NextPhotos]_vars

\* One signed-in browser analysing photos and deleting what it may.
SpecAnalysis == InitAnalysis /\ [][NextAnalysis]_vars

\* Three browsers reading and deleting the photos and results of two users.
SpecOwnership == InitOwnership /\ [][NextOwnership]_vars

\* Email and password accounts next to the Google sign-in of one browser.
SpecAccounts == Init /\ [][NextAccounts]_vars

\* The frontend polling one picker session after the other.  The timer
\* fires and every request is answered or fails, so a call that has started
\* keeps taking its steps.
SpecPoll == Init /\ [][NextPoll]_vars /\ WF_vars(PollSend \/ PollReceive \/ PollLoaded)

----------------------------------------------------------------------------
(* Properties *)

ProxiedApi == "image.original"
CallsTo(api) == { i \in 1..Len(last.calls) : last.calls[i].api = api }

\* The request made its downstream call, got `status`, and carried a refresh
\* token cookie (no handler changes that cookie).
FirstAnswered(statuses) ==
    /\ Len(last.calls) >= 1
    /\ last.calls[1].status \in statuses
    /\ cookies[last.by].refresh # None

\* The second call exchanges the refresh token; if that yields a token, the
\* third call repeats the first with the new token, which is also the token
\* the cookie now holds, and the call is not repeated again.
RefreshedAndRetriedOnce ==
    /\ Len(last.calls) >= 2
    /\ last.calls[2].api = "oauth.refresh"
    /\ last.calls[2].token = cookies[last.by].refresh
    /\ last.calls[2].status = 200 =>
          /\ Len(last.calls) >= 3
          /\ last.calls[3].api = last.calls[1].api
          /\ last.calls[3].token = cookies[last.by].access
          /\ last.calls[3].token # last.calls[1].token
          /\ CallsTo(last.calls[1].api) = {1, 3}
    /\ last.calls[2].status # 200 => CallsTo(last.calls[1].api) = {1}

\* C1 as stated: in picker/start, picker/items and the proxy, a 401 or 403
\* from the downstream call with a refresh token cookie present leads to a
\* token refresh and one retry of the same call with the new token.
C1_RefreshOn401Or403 ==
    (last.op \in {"start", "items", "proxy"} /\ FirstAnswered({401, 403}))
        => RefreshedAndRetriedOnce

\* C1 amended: picker/start and picker/items refresh and retry once on a 401
\* only (a 403 is answered as an error, with no refresh); the proxy does so
\* on a 401 and on a 403.
C1_RefreshPerHandler ==
    /\ (last.op \in {"start", "items"} /\ FirstAnswered({401})) => RefreshedAndRetriedOnce
    /\ (last.op = "proxy" /\ FirstAnswered({401, 403})) => RefreshedAndRetriedOnce
    /\ (last.op \in {"start", "items"} /\ FirstAnswered({403})) =>
            /\ Len(last.calls) = 1
            /\ last.status = 403

C1_Witness ==
    /\ last.op = "items"
    /\ FirstAnswered({401})
    /\ Len(last.calls) >= 3
    /\ last.calls[3].api = "mediaItems.list"
    /\ last.calls[3].status = 200
    /\ last.calls[3].token # last.calls[1].token
    /\ last.status = 200

\* C2 as stated: a run of picker/items that follows a run by the same user
\* with the same selection adds no userPhotos document.
C2_SecondRunAddsNothing ==
    [][ ( /\ last.op = "items" /\ last.status = 200
          /\ last'.op = "items" /\ last'.status = 200
          /\ last'.user = last.user
          /\ last'.data = last.data )
        => userPhotos' = userPhotos ]_vars

\* C2 amended: a run of picker/items changes no stored document, and adds a
\* document only for the caller and only for a selected item that has no id
\* or whose id is not yet stored for the caller.  (An item with an id that a
\* run has stored is skipped by every later run; an item without an id is
\* stored again by each run.)
C2_SkipIfExists ==
    [][ last'.op = "items" =>
          \A d \in DocIds :
             /\ userPhotos[d] # NoDoc => userPhotos'[d] = userPhotos[d]
             /\ (userPhotos[d] = NoDoc /\ userPhotos'[d] # NoDoc) =>
                   /\ userPhotos'[d].userId = last'.user
                   /\ \/ userPhotos'[d].photoId = NoId
                      \/ ~ \E e \in DocIds : /\ userPhotos[e] # NoDoc
                                             /\ userPhotos[e].userId = last'.user
                                             /\ userPhotos[e].photoId = userPhotos'[d].photoId ]_vars

\* A run whose whole selection was already stored: it asked Firestore which
\* ids exist and then wrote nothing.
C2_Witness ==
    /\ last.op = "items"
    /\ last.status = 200
    /\ last.data = <<101>>
    /\ \E i \in 1..Len(last.calls) :
          last.calls[i].api = "userPhotos.query" /\ last.calls[i].status = 200
    /\ CallsTo("userPhotos.commit") = {}
    /\ \E d \in DocIds : /\ userPhotos[d] # NoDoc
                         /\ userPhotos[d].userId = last.user
                         /\ userPhotos[d].photoId = 101

\* The answer of the media-items call that decided the request: the retry
\* when there was one, else the first call.
C9_Upstream ==
    last.calls[CHOOSE i \in CallsTo("mediaItems.list") :
                  \A j \in CallsTo("mediaItems.list") : j <= i]

C9_IsPendingError(err) ==
    \/ err.apiStatus = "FAILED_PRECONDITION"
    \/ err.message \in {"not picked media items", "Please redirect the user"}

\* C9 as stated: picker/items answers 200 DONE when the media-items call
\* succeeds, 202 PENDING when it fails with 400 and FAILED_PRECONDITION (or
\* one of the two messages), 404 EXPIRED when it fails with 404, and
\* otherwise an error with the upstream status.
C9_OutcomeMapping ==
    (last.op = "items" /\ CallsTo("mediaItems.list") # {}) =>
        LET up == C9_Upstream IN
        /\ up.status = 200 => (last.status = 200 /\ last.body = "DONE")
        /\ (up.status = 400 /\ C9_IsPendingError(last.data)) =>
              (last.status = 202 /\ last.body = "PENDING")
        /\ up.status = 404 => (last.status = 404 /\ last.body = "EXPIRED")
        /\ ( /\ up.status \notin {200, 404, NoStatus}
             /\ ~ (up.status = 400 /\ C9_IsPendingError(last.data)) ) =>
              (last.status = up.status /\ last.body = "Failed to list picked media items")

\* The proxy produced no image before its step 3 could run.
C10_NoImageBeforeBaseUrl ==
    \A i \in CallsTo(ProxiedApi) : last.calls[i].status # 200

\* C10 as stated: the proxy first fetches the url with the current token,
\* then on 401/403 with a refresh token refreshes and fetches again, then,
\* when no image was produced, a photoId was supplied and Google answered 403
\* or 404 for the url on the first fetch or on the fetch after the refresh,
\* asks mediaItems.get for a fresh baseUrl; steps come in this order.
C10_ProxyOrder ==
    (last.op = "proxy" /\ Len(last.calls) >= 1) =>
        /\ last.calls[1].api = ProxiedApi
        /\ (FirstAnswered({401, 403})) => RefreshedAndRetriedOnce
        /\ \A i \in CallsTo("oauth.refresh") : i = 2
        /\ \A i \in CallsTo("mediaItems.get") :
              \A j \in CallsTo(ProxiedApi) \cup CallsTo("oauth.refresh") : j < i
        /\ CallsTo("mediaItems.get") # {} <=>
              /\ C10_NoImageBeforeBaseUrl
              /\ last.data = TRUE
              /\ \E i \in CallsTo(ProxiedApi) : last.calls[i].status \in {403, 404}

\* C5: the callback sets google_user_id and google_access_token exactly when
\* the code exchange and the userinfo fetch both succeed, whatever the
\* profile write does; google_user_id is then the Google user id and
\* google_refresh_token is set exactly when the token answer carries one.
C5_CookiesIffSignedIn ==
    last.op = "callback" =>
        LET exchanged == Len(last.calls) >= 1 /\ last.calls[1].status = 200
            fetched   == Len(last.calls) >= 2 /\ last.calls[2].status = 200
        IN  /\ ("google_user_id" \in last.set) <=> (exchanged /\ fetched)
            /\ ("google_access_token" \in last.set) <=> (exchanged /\ fetched)
            /\ ("google_refresh_token" \in last.set) <=>
                  (exchanged /\ fetched /\ last.calls[1].token # None)
            /\ (exchanged /\ fetched) =>
                  /\ cookies[last.by].uid = last.data
                  /\ cookies[last.by].access = last.calls[2].token
            /\ ("google_refresh_token" \in last.set) => cookies[last.by].refresh = last.calls[1].token

\* A sign-in whose profile write failed, without a refresh token in the
\* token answer.
C5_Witness ==
    /\ last.op = "callback"
    /\ Len(last.calls) = 3
    /\ last.calls[3].status # 200
    /\ last.calls[1].token = None
    /\ last.set = {"google_user_id", "google_access_token"}
    /\ cookies[last.by].uid = last.data

\* C6: a dashboard request with neither a token nor a session cookie is
\* answered 401.
C6_DashboardRequiresAuth ==
    ( /\ last.op \in {"stats", "profile", "activity"}
      /\ last.data = FALSE
      /\ last.user = None ) => last.status = 401

CookieProtectedOps == {"start", "items", "proxy", "pending", "deletePhoto", "me"}

\* C8: the request that follows a logout, to a cookie-protected route, is
\* answered 401 and writes nothing.  (A request that names no sessionId or
\* url is answered 400 before the cookies are looked at.)
C8_RejectedAfterLogout ==
    [][ ( /\ last.op = "logout"
          /\ last'.op \in CookieProtectedOps
          /\ last'.status # 400 )
        => ( /\ last'.status = 401
             /\ UNCHANGED <<users, userPhotos, results>> ) ]_vars

\* The primary write of an analysis failed: Vision and Gemini had answered
\* and results/{resultId}.set threw.
C3_PrimaryWriteFailed ==
    /\ last.op = "analyze"
    /\ \E i \in CallsTo("results.set") : last.calls[i].status # 200

C3_Stored(api) == \E i \in CallsTo(api) : last.calls[i].status = 200

\* C3 as stated: when the primary write fails, the handler tries (2) the
\* write of the result into the userPhotos document, then, (2) not having
\* stored it, (3) the status-only update, and answers success with a
\* resultId.
C3_FallbackChain ==
    C3_PrimaryWriteFailed =>
        /\ last.status = 200
        /\ last.data.resultId # NoId
        /\ CallsTo("userPhotos.get") # {}
        /\ ~ C3_Stored("userPhotos.update.result") => Cardinality(CallsTo("userPhotos.get")) = 2
        /\ \A i \in CallsTo("userPhotos.update.result"), j \in CallsTo("userPhotos.update.status") : i < j

\* C3 amended: when the primary write fails the handler still answers
\* success with the result and a resultId.  Only when photoId is shorter than
\* 30 characters does it go on to userPhotos/{photoId}: it reads the document
\* and, if it exists and is the caller's, (2) writes the result and status
\* 'analyzed' into it and answers photoId as the resultId; only if (2) stored
\* nothing does it (3) read the document again and update its status alone.
\* Whenever (2) stored nothing the resultId is a temporary one.  For a longer
\* photoId neither (2) nor (3) is tried.
C3_FallbackWhenDocId ==
    C3_PrimaryWriteFailed =>
        LET gets    == CallsTo("userPhotos.get")
            writes2 == CallsTo("userPhotos.update.result")
            writes3 == CallsTo("userPhotos.update.status")
            first   == CHOOSE i \in CallsTo("results.set") : TRUE
        IN  /\ last.status = 200
            /\ last.data.resultId \in {last.arg, TempResultId}
            /\ IdLength(last.arg) >= 30 =>
                  /\ Len(last.calls) = first
                  /\ last.data.resultId = TempResultId
            /\ IdLength(last.arg) < 30 =>
                  /\ first + 1 \in gets
                  /\ \A i \in writes2 : i = first + 2
                  /\ \A i \in writes2 \cup writes3 :
                        /\ last.calls[i - 1].api = "userPhotos.get"
                        /\ last.calls[i - 1].status = 200
                        /\ userPhotos[last.arg].userId = last.user
                  /\ C3_Stored("userPhotos.update.result") =>
                        /\ Cardinality(gets) = 1
                        /\ writes3 = {}
                        /\ last.data.resultId = last.arg
                        /\ userPhotos[last.arg].status = "analyzed"
                        /\ userPhotos[last.arg].analysis = last.data.era
                  /\ ~ C3_Stored("userPhotos.update.result") =>
                        /\ Cardinality(gets) = 2
                        /\ \A i \in writes2, j \in gets \ {first + 1} : i < j
                        /\ last.data.resultId = TempResultId
                        /\ C3_Stored("userPhotos.update.status") =>
                              userPhotos[last.arg].status = "analyzed"

\* The primary write and the write of method 2 failed, the status-only
\* update went through.
C3_Witness ==
    /\ C3_PrimaryWriteFailed
    /\ \E i \in CallsTo("userPhotos.update.result") : last.calls[i].status # 200
    /\ C3_Stored("userPhotos.update.status")
    /\ last.status = 200
    /\ last.data.resultId = TempResultId
    /\ userPhotos[last.arg].status = "analyzed"
    /\ userPhotos[last.arg].analysis = None

\* Replies that are not JSON, with or without a fence around them.
C4_NotJson ==
    { <<"junk">>, <<"{", "era">>, <<"FENCE_JSON", "junk", "FENCE">>, <<>> }

\* C4: when Gemini's reply is not JSON the analysis still answers success,
\* and the geminiResult it answers and stores is the fallback with
\* era_primary 'Unknown'.
C4_ParseFallback ==
    ( /\ last.op = "analyze"
      /\ \E i \in CallsTo("gemini") : last.calls[i].status = 200
      /\ last.data.reply \in C4_NotJson ) =>
        /\ last.status = 200
        /\ last.data.era = "Unknown"
        /\ C3_Stored("results.set") => results[last.data.resultId].era = "Unknown"
        /\ C3_Stored("userPhotos.update.result") => userPhotos[last.arg].analysis = "Unknown"

\* A truncated reply, answered and stored as the fallback.
C4_Witness ==
    /\ last.op = "analyze"
    /\ last.status = 200
    /\ \E i \in CallsTo("gemini") : last.calls[i].status = 200
    /\ last.data.reply = <<"{", "era">>
    /\ last.data.era = "Unknown"
    /\ last.data.resultId \in ResultIds
    /\ results[last.data.resultId].era = "Unknown"

\* The signed-in request just served named a document of another user.
C7_OthersPhoto ==
    /\ last'.user # None
    /\ userPhotos[last'.arg] # NoDoc
    /\ userPhotos[last'.arg].userId # last'.user

C7_OthersResult ==
    /\ last'.user # None
    /\ results[last'.arg] # NoDoc
    /\ results[last'.arg].userId # last'.user

\* C7: DELETE /api/photos/:photoId and GET and DELETE
\* /api/analysis/result/:resultId, asked by a signed-in user for another
\* user's document, change nothing, return no data and answer 403 once the
\* document has been read (500 when reading it fails); a document disappears
\* only on a request of its owner; what GET /api/analysis/check and GET
\* /api/analysis/result return belongs to the caller.
C7_OwnerOnly ==
    [][ /\ (last'.op = "deletePhoto" /\ C7_OthersPhoto) =>
              /\ UNCHANGED <<userPhotos, results>>
              /\ last'.status = IF last'.calls[1].status = 200 THEN 403 ELSE 500
        /\ (last'.op \in {"getResult", "deleteResult"} /\ C7_OthersResult) =>
              /\ UNCHANGED <<userPhotos, results>>
              /\ last'.data = None
              /\ last'.status = IF last'.calls[1].status = 200 THEN 403 ELSE 500
        /\ \A d \in DocIds :
              (userPhotos[d] # NoDoc /\ userPhotos'[d] = NoDoc) =>
                  (last'.op = "deletePhoto" /\ userPhotos[d].userId = last'.user)
        /\ \A r \in ResultIds :
              (results[r] # NoDoc /\ results'[r] = NoDoc) =>
                  (last'.op = "deleteResult" /\ results[r].userId = last'.user)
        /\ (last'.op = "getResult" /\ last'.status = 200) =>
              /\ last'.data.owner = last'.user
              /\ results[last'.arg].userId = last'.user
        /\ (last'.op = "check" /\ last'.status = 200 /\ last'.data.exists) =>
              /\ last'.data.owner = last'.user
              /\ IF last'.data.resultId \in ResultIds
                 THEN results[last'.data.resultId].userId = last'.user
                 ELSE userPhotos[last'.data.resultId].userId = last'.user
      ]_vars

\* A signed-in user was refused the deletion of another user's result, which
\* is still there.
C7_Witness ==
    /\ last.op = "deleteResult"
    /\ last.status = 403
    /\ last.user # None
    /\ results[last.arg] # NoDoc
    /\ results[last.arg].userId # last.user

C11_StillPending == {"PENDING", "error202"}

\* What holds at every moment of a call of pollPickerSession: at most one
\* request is in flight, at most maxAttempts have been sent (one per round),
\* rounds go on only while the answers are PENDING, a DONE answer ends the
\* polling, and the polling timeout comes only after maxAttempts requests
\* that all answered PENDING.
C11_Sequential ==
    /\ poll.inflight <= 1
    /\ poll.inflight = (IF poll.pc = "inflight" THEN 1 ELSE 0)
    /\ poll.sent <= maxAttempts
    /\ poll.sent = (IF poll.pc = "sleeping" THEN poll.attempt - 1 ELSE poll.attempt)
    /\ (poll.pc \in {"sleeping", "inflight"} /\ poll.attempt > 1) => poll.answer \in C11_StillPending
    /\ poll.answer = "DONE" => (poll.pc \in {"loading", "returned"} /\ poll.outcome \in {None, "done"})
    /\ poll.outcome = "timeout" => (poll.sent = maxAttempts /\ poll.answer \in C11_StillPending)
    /\ (poll.pc = "returned" /\ poll.sent = maxAttempts /\ poll.answer \in C11_StillPending)
          => poll.outcome = "timeout"

StorageAnswered ==
    /\ Len(last'.calls) >= 1
    /\ \A i \in 1..Len(last'.calls) : last'.calls[i].status = 200

C13_Registered(id, email) ==
    /\ accounts[id] # NoAccount
    /\ accounts[id].raw = email

C14_Refreshed ==
    /\ Len(last.calls) >= 3
    /\ last.calls[2].api = "oauth.refresh"
    /\ last.calls[2].status = 200

C14_RetryFailed == C14_Refreshed /\ last.calls[3].status # 200

\* At most one refresh, made right after the first call; at most one
\* repetition of the first call, made right after the refresh with the token
\* it returned; no Google call of the request carries any other token.
C14_OnceEach ==
    /\ CallsTo("oauth.refresh") \subseteq {2}
    /\ CallsTo(last.calls[1].api) \subseteq {1, 3}
    /\ 3 \in CallsTo(last.calls[1].api) <=> C14_Refreshed
    /\ C14_Refreshed => /\ last.calls[3].token = cookies[last.by].access
                        /\ last.calls[3].token # last.calls[1].token
    /\ \A i \in 1..Len(last.calls) :
          last.calls[i].api \in {last.calls[1].api, "mediaItems.get", "image.fresh"}
              => last.calls[i].token \in {last.calls[1].token, cookies[last.by].access}
    /\ ~C14_Refreshed => cookies[last.by].access = last.calls[1].token

\* C14 as stated: a request to picker/start, picker/items or the proxy
\* refreshes at most once and repeats its downstream call at most once, with
\* the refreshed token; when the repeated call fails as well, nothing more is
\* refreshed or sent with another token and the request is answered with an
\* error.
C14_SingleRetryThenError ==
    (last.op \in {"start", "items", "proxy"} /\ Len(last.calls) >= 1) =>
        /\ C14_OnceEach
        /\ C14_RetryFailed => last.status >= 400

\* C14 amended: at most one refresh and one repetition with the refreshed
\* token in all three handlers.  After a failed repetition picker/start and
\* picker/items make no further call and answer with an error, except that
\* picker/items answers 202 PENDING when the repetition failed with the
\* 400 that means the user has not picked yet.  The proxy,
\* when the first fetch answered 403 and a photoId was given, goes on to ask
\* the Photos Library API for a fresh baseUrl and fetches it, both with the
\* refreshed token, and answers 200 when that fetch yields the image;
\* otherwise it makes no further call and answers with an error.
C14_SingleRefreshAndRetry ==
    (last.op \in {"start", "items", "proxy"} /\ Len(last.calls) >= 1) =>
        /\ C14_OnceEach
        /\ (C14_RetryFailed /\ last.op \in {"start", "items"}) =>
              /\ Len(last.calls) = 3
              /\ LET pending == /\ last.op = "items"
                                /\ last.calls[3].status = 400
                                /\ C9_IsPendingError(last.data)
                 IN  IF pending THEN last.status = 202 /\ last.body = "PENDING"
                                ELSE last.status >= 400
        /\ (C14_RetryFailed /\ last.op = "proxy") =>
              /\ Len(last.calls) > 3 <=> (last.calls[1].status = 403 /\ last.data = TRUE)
              /\ Len(last.calls) <= 5
              /\ Len(last.calls) >= 4 => /\ last.calls[4].api = "mediaItems.get"
                                         /\ last.calls[4].token = last.calls[3].token
              /\ Len(last.calls) = 5 => /\ last.calls[4].status = 200
                                        /\ last.calls[5].api = "image.fresh"
                                        /\ last.calls[5].token = last.calls[3].token
              /\ last.status = 200 <=> (Len(last.calls) = 5 /\ last.calls[5].status = 200)
              /\ last.status # 200 => last.status >= 400

\* A proxy request whose fetch was refused, whose token was refreshed, whose
\* repeated fetch failed too, and which was still answered with the image.
C14_Witness ==
    /\ last.op = "proxy"
    /\ C14_RetryFailed
    /\ Cardinality(CallsTo("oauth.refresh")) = 1
    /\ CallsTo("image.original") = {1, 3}
    /\ last.status = 200

\* C15: when the downstream call of picker/start or picker/items answers 401
\* and there is no refresh token cookie, or the refresh itself fails, the
\* request is answered 401.
C15_Unauthorized ==
    ( /\ last.op \in {"start", "items"}
      /\ Len(last.calls) >= 1
      /\ last.calls[1].status = 401
      /\ \/ cookies[last.by].refresh = None
         \/ /\ Len(last.calls) >= 2
            /\ last.calls[2].api = "oauth.refresh"
            /\ last.calls[2].status # 200 )
        => last.status = 401

\* The Firestore calls of /analyze.
C16_StorageApis ==
    {"results.set", "userPhotos.get", "userPhotos.update.result", "userPhotos.update.status"}

C16_StorageCalls(calls) == { i \in 1..Len(calls) : calls[i].api \in C16_StorageApis }
C16_StageCalls(calls) == { i \in 1..Len(calls) : calls[i].api \in {"vision", "gemini"} }

\* C16: an /analyze request answered 400 (validation) or 500 (Vision or
\* Gemini threw) leaves results and userPhotos as they were and made no
\* Firestore call; whenever /analyze calls Firestore, Vision and, if it was
\* called, Gemini have returned before.
C16_NoWriteOnFailure ==
    [][ last'.op = "analyze" =>
          /\ last'.status \in {400, 500} =>
                /\ results' = results
                /\ userPhotos' = userPhotos
                /\ C16_StorageCalls(last'.calls) = {}
          /\ (results' # results \/ userPhotos' # userPhotos) =>
                C16_StorageCalls(last'.calls) # {}
          /\ C16_StorageCalls(last'.calls) # {} =>
                /\ last'.status = 200
                /\ \E i \in C16_StageCalls(last'.calls) : last'.calls[i].api = "vision"
                /\ \A i \in C16_StageCalls(last'.calls) :
                      /\ last'.calls[i].status = 200
                      /\ \A j \in C16_StorageCalls(last'.calls) : i < j
      ]_vars

\* An analysis of a user's own stored photo failed because Gemini threw
\* after Vision had returned, with a result of an earlier analysis in store.
C16_Witness ==
    /\ last.op = "analyze"
    /\ last.status = 500
    /\ Len(last.calls) = 2
    /\ last.calls[2] = Call("gemini", None, 500)
    /\ OwnPhoto(last.arg, last.user)
    /\ \E id \in DOMAIN results : results[id] # NoDoc

====
